---------------------------- MODULE Spec2Model ----------------------------
(***************************************************************************)
(* CppAD: lowering of an operation graph to an LLVM IR function            *)
(* (llvm_ir::from_graph), the calling convention of the generated          *)
(* function, the FunCheck re-taping example and the atomic index table.    *)
(***************************************************************************)
EXTENDS Integers, Sequences, FiniteSets, TLC

(***************************************************************************)
(* Bounds of the model.                                                    *)
(***************************************************************************)
\* largest number of entries of graph_obj.operator_vec
MaxOps == 2

(***************************************************************************)
(* double values.  A double is NaN, +-Inf or a finite value s * n / d      *)
(* with gcd(n, d) = 1; zero keeps its sign (n = 0, d = 1, s = 1 or -1).    *)
(* Finite arithmetic is exact: the values of the model are small           *)
(* rationals, so that no rounding is modelled.                             *)
(***************************************************************************)
NaN == [k |-> "nan", s |-> 1, n |-> 0, d |-> 1]
Inf(sg) == [k |-> "inf", s |-> sg, n |-> 0, d |-> 1]
PInf == Inf(1)
NInf == Inf(-1)

RECURSIVE Gcd(_, _)
Gcd(a, b) == IF b = 0 THEN a ELSE Gcd(b, a % b)

\* the finite double sg * num / den, in lowest terms
Fin(sg, num, den) ==
    LET g == Gcd(num, den)
    IN  IF num = 0 THEN [k |-> "fin", s |-> sg, n |-> 0, d |-> 1]
        ELSE [k |-> "fin", s |-> sg, n |-> num \div g, d |-> den \div g]

PZero == Fin(1, 0, 1)
NZero == Fin(-1, 0, 1)
FpInt(i) == IF i < 0 THEN Fin(-1, -i, 1) ELSE Fin(1, i, 1)

IsNaN(x) == x.k = "nan"
IsInf(x) == x.k = "inf"
IsFin(x) == x.k = "fin"
IsZero(x) == x.k = "fin" /\ x.n = 0

\* llvm fneg: flips the sign bit
FNeg(x) == IF IsNaN(x) THEN NaN ELSE [x EXCEPT !.s = -x.s]

\* llvm fadd
FAdd(x, y) ==
    IF IsNaN(x) \/ IsNaN(y) THEN NaN
    ELSE IF IsInf(x) /\ IsInf(y) THEN (IF x.s = y.s THEN x ELSE NaN)
    ELSE IF IsInf(x) THEN x
    ELSE IF IsInf(y) THEN y
    ELSE LET num == x.s * x.n * y.d + y.s * y.n * x.d
             den == x.d * y.d
         IN  IF num = 0
             THEN (IF IsZero(x) /\ IsZero(y) /\ x.s = -1 /\ y.s = -1
                   THEN NZero ELSE PZero)
             ELSE IF num < 0 THEN Fin(-1, -num, den) ELSE Fin(1, num, den)

\* llvm fsub
FSub(x, y) == FAdd(x, FNeg(y))

\* llvm fmul
FMul(x, y) ==
    IF IsNaN(x) \/ IsNaN(y) THEN NaN
    ELSE IF (IsInf(x) /\ IsZero(y)) \/ (IsZero(x) /\ IsInf(y)) THEN NaN
    ELSE IF IsInf(x) \/ IsInf(y) THEN Inf(x.s * y.s)
    ELSE Fin(x.s * y.s, x.n * y.n, x.d * y.d)

\* llvm fdiv
FDiv(x, y) ==
    IF IsNaN(x) \/ IsNaN(y) THEN NaN
    ELSE IF IsInf(x) /\ IsInf(y) THEN NaN
    ELSE IF IsZero(x) /\ IsZero(y) THEN NaN
    ELSE IF IsInf(x) THEN Inf(x.s * y.s)
    ELSE IF IsInf(y) THEN Fin(x.s * y.s, 0, 1)
    ELSE IF IsZero(y) THEN Inf(x.s * y.s)
    ELSE Fin(x.s * y.s, x.n * y.d, x.d * y.n)

\* llvm fcmp oeq: ordered and equal (+0 and -0 compare equal, NaN never)
FCmpOEQ(x, y) ==
    /\ ~IsNaN(x)
    /\ ~IsNaN(y)
    /\ \/ IsZero(x) /\ IsZero(y)
       \/ x = y

\* the C library's acosh, called by the generated code: NaN below 1, +0 at
\* 1, +Inf at +Inf.  For a finite x > 1 the result is a positive finite
\* double; the model takes x - 1 for it (no digit of it is used below).
Acosh(x) ==
    IF IsNaN(x) THEN NaN
    ELSE IF IsInf(x) THEN (IF x.s = 1 THEN PInf ELSE NaN)
    ELSE IF x.s = -1 \/ x.n < x.d THEN NaN
    ELSE FAdd(x, FpInt(-1))


(***************************************************************************)
(* The graph handed to from_graph (CppAD::cpp_graph, read through its      *)
(* accessors).  Node indices are 1-based: dynamic independents, variable   *)
(* independents, constants, then one result per operator.                  *)
(***************************************************************************)
\* the operators from_graph lowers
SupportedOps == {"neg", "acosh", "add", "sub", "mul", "div", "azmul"}
UnaryOps == {"neg", "acosh"}
\* operators of graph_op_enum that from_graph does not lower
OtherOps == {"sin", "cos"}

\* the values passed in input_ptr, and the literals of constant_vec
InVals == {PZero, NaN, FpInt(2)}
ConstVals == {PInf}

\* <<n_dynamic_ind, n_variable_ind, constant_vec>>
Shapes ==
    {<<0, 1, <<>>>>} \cup {<<1, 1, <<c>>>> : c \in ConstVals}

\* argument indices of a node whose result gets index size: the first node
\* and the latest node, both defined before it
UnaryArgs(size) == {<<1>>, <<size - 1>>}
BinaryArgs(size) == {<<1, size - 1>>, <<size - 1, 1>>}

Nodes(size) ==
    {[op_enum |-> o, arg |-> a] : o \in UnaryOps, a \in UnaryArgs(size)}
    \cup {[op_enum |-> o, arg |-> a] :
            o \in SupportedOps \ UnaryOps, a \in BinaryArgs(size)}
    \cup {[op_enum |-> o, arg |-> <<1>>] : o \in OtherOps}

\* operator vectors of at most k nodes, the first of which gets index size
RECURSIVE OpVecs(_, _)
OpVecs(k, size) ==
    IF k = 0 THEN {<<>>}
    ELSE {<<>>} \cup
         {<<nd>> \o rest : nd \in Nodes(size), rest \in OpVecs(k - 1, size + 1)}

\* dependent vectors over the nodes 1 .. size - 1: none, the latest node,
\* the latest node followed by the last independent
DepVecs(size, n_ind) == {<<>>, <<size - 1>>, <<size - 1, n_ind>>}

Graph(dn, an, pn, name, sh, ops, dep) ==
    [ discrete_name_vec_size |-> dn,
      atomic_name_vec_size   |-> an,
      print_text_vec_size    |-> pn,
      function_name          |-> name,
      n_dynamic_ind          |-> sh[1],
      n_variable_ind         |-> sh[2],
      constant_vec           |-> sh[3],
      operator_vec           |-> ops,
      dependent_vec          |-> dep ]

\* number of nodes before the first operator
NBase(sh) == sh[1] + sh[2] + Len(sh[3])

\* the sizes of the three tables and the function name
Headers ==
    {<<dn, an, pn, name>> :
        dn \in {0, 1}, an \in {0, 1}, pn \in {0, 1}, name \in {"", "f"}}

\* a header that passes the four checks on the tables and the name
Named(hd) == hd = <<0, 0, 0, "f">>

\* The graphs from_graph is called with.  When one of the four checks
\* fails nothing but the counts and the name is read: such a header comes
\* with one shape, one dependent vector and two operator vectors (one
\* lowered, one not).
ShapesOf(hd) == IF Named(hd) THEN Shapes ELSE {<<1, 1, <<>>>>}
OpVecsOf(hd, sh) ==
    IF Named(hd) THEN OpVecs(MaxOps, NBase(sh) + 1)
    ELSE {<<>>, <<[op_enum |-> "sin", arg |-> <<1>>]>>}
DepVecsOf(hd, sh, ops) ==
    IF Named(hd) THEN DepVecs(NBase(sh) + Len(ops) + 1, sh[1] + sh[2])
    ELSE {<<1, 2>>}

(***************************************************************************)
(* LLVM values, instructions, functions and modules.                       *)
(***************************************************************************)
\* an llvm::Value*: nullptr, a function argument, an instruction's result,
\* a ConstantFP or a ConstantInt
VNull    == [t |-> "null", i |-> 0, v |-> NaN]
VArg(j)  == [t |-> "arg",  i |-> j, v |-> NaN]
VInst(j) == [t |-> "inst", i |-> j, v |-> NaN]
VFp(x)   == [t |-> "cfp",  i |-> 0, v |-> x]
VInt(j)  == [t |-> "cint", i |-> j, v |-> NaN]

\* the four arguments of the generated function
len_input  == VArg(0)
input_ptr  == VArg(1)
len_output == VArg(2)
output_ptr == VArg(3)

\* instruction id = op a, b, c  (t1, t2: the targets of a branch)
Inst(id, op, a, b, c) ==
    [id |-> id, op |-> op, a |-> a, b |-> b, c |-> c, t1 |-> "", t2 |-> ""]
Br(id, cond, t1, t2) ==
    [id |-> id, op |-> "condbr", a |-> cond, b |-> VNull, c |-> VNull,
     t1 |-> t1, t2 |-> t2]

BlockNames == {"EntryBlock", "error_bb", "merge_bb"}
NoCode == [b \in BlockNames |-> <<>>]

\* no function (module_ir_->getFunction(...) == nullptr)
NoFunction == [name |-> "", layout |-> <<>>, code |-> NoCode]
\* a null std::unique_ptr<llvm::Module>
NullModule == [ctx |-> 0, decls |-> {}, function |-> NoFunction]

\* instructions created so far in a function
NInst(f) ==
    Len(f.code["EntryBlock"]) + Len(f.code["error_bb"]) + Len(f.code["merge_bb"])

\* builder.Create...: append instructions at the end of block bb
Emit(m, bb, insts) ==
    [m EXCEPT !.function.code[bb] = @ \o insts]

\* graph_ir[idx] (a std::vector: an index past the end is undefined; the
\* model reads nullptr there)
At(table, idx) == IF idx + 1 \in DOMAIN table THEN table[idx + 1] ELSE VNull

(***************************************************************************)
(* The code from_graph generates, piece by piece.                          *)
(***************************************************************************)
\* entry block: error_len_input, error_len_output, error_len, error_no and
\* the branch to error_bb or merge_bb
error_len == VInst(3)
error_no  == VInst(4)

\* (a variant whose second comparison tests len_input again)
LengthCheckEntryInputOnly(n_input, n_dep) ==
    << Inst(1, "icmp_ne", len_input, VInt(n_input), VNull),
       Inst(2, "icmp_ne", len_input, VInt(n_input), VNull),
       Inst(3, "or", VInst(1), VInst(2), VNull),
       Inst(4, "zext", VInst(3), VNull, VNull),
       Br(5, VInst(3), "error_bb", "merge_bb") >>

LengthCheckEntry(n_input, n_dep) ==
    << Inst(1, "icmp_ne", len_input, VInt(n_input), VNull),
       Inst(2, "icmp_ne", len_output, VInt(n_dep), VNull),
       Inst(3, "or", VInst(1), VInst(2), VNull),
       Inst(4, "zext", error_len, VNull, VNull),
       Br(5, error_len, "error_bb", "merge_bb") >>

\* error_bb: return error_no
LengthCheckError == << Inst(6, "ret", error_no, VNull, VNull) >>

\* offset in input_ptr of dynamic independent i and variable independent i
DynamicOffset(i) == i
\* (a variant that starts the variables at offset zero)
VariableOffsetFromZero(n_dyn, i) == i
VariableOffset(n_dyn, i) == n_dyn + i

\* offset in input_ptr of the k-th independent, k = 0, 1, ...
IndependentOffset(n_dyn, k) ==
    IF k < n_dyn THEN DynamicOffset(k) ELSE VariableOffset(n_dyn, k - n_dyn)

\* the GEP and the load of each independent, ids from id0 on
IndependentInsts(id0, n_dyn, n_var) ==
    [j \in 1 .. 2 * (n_dyn + n_var) |->
        IF j % 2 = 1
        THEN Inst(id0 + j - 1, "gep", input_ptr,
                  VInt(IndependentOffset(n_dyn, (j - 1) \div 2)), VNull)
        ELSE Inst(id0 + j - 1, "load", VInst(id0 + j - 2), VNull, VNull)]

\* (a variant that pushes the variable independents only)
IndependentValuesVariableOnly(id0, n_dyn, n_var) ==
    [k \in 1 .. n_var |-> VInst(id0 + 2 * (n_dyn + k) - 1)]

\* the values pushed on graph_ir for the independents
IndependentValues(id0, n_dyn, n_var) ==
    [k \in 1 .. n_dyn + n_var |-> VInst(id0 + 2 * k - 1)]

\* the values pushed on graph_ir for the constants
ConstantValues(constant_vec) ==
    [i \in 1 .. Len(constant_vec) |-> VFp(constant_vec[i])]

fp_zero == VFp(PZero)

\* (a variant that compares the right operand with zero)
AzmulInstsRightOperand(id0, a, b) ==
    << Inst(id0, "fmul", a, b, VNull),
       Inst(id0 + 1, "fcmp_oeq", b, fp_zero, VNull),
       Inst(id0 + 2, "select", VInst(id0 + 1), fp_zero, VInst(id0)) >>

\* azmul: the product, the comparison of the left operand with zero, and
\* the select between zero and the product
AzmulInsts(id0, a, b) ==
    << Inst(id0, "fmul", a, b, VNull),
       Inst(id0 + 1, "fcmp_oeq", a, fp_zero, VNull),
       Inst(id0 + 2, "select", VInst(id0 + 1), fp_zero, VInst(id0)) >>

\* the one instruction of a binary operator
BinaryInst(id0, op_enum, a, b) ==
    Inst(id0, CASE op_enum = "add" -> "fadd"
                [] op_enum = "sub" -> "fsub"
                [] op_enum = "mul" -> "fmul"
                [] op_enum = "div" -> "fdiv", a, b, VNull)

\* the instructions of one supported node; its value is the last one's
NodeInsts(id0, op_enum, arg, table) ==
    CASE op_enum = "acosh" ->
            << Inst(id0, "call_acosh", At(table, arg[1]), VNull, VNull) >>
      [] op_enum = "neg" ->
            << Inst(id0, "fneg", At(table, arg[1]), VNull, VNull) >>
      [] op_enum = "azmul" ->
            AzmulInsts(id0, At(table, arg[1]), At(table, arg[2]))
      [] OTHER ->
            << BinaryInst(id0, op_enum, At(table, arg[1]), At(table, arg[2])) >>

\* output position of dependent i, i = 0, 1, ...
DependentOffset(i) == i

\* the GEP and the store of each dependent, then the return of error_no
DependentInsts(id0, dependent_vec, table) ==
    [j \in 1 .. 2 * Len(dependent_vec) + 1 |->
        IF j = 2 * Len(dependent_vec) + 1
        THEN Inst(id0 + j - 1, "ret", error_no, VNull, VNull)
        ELSE IF j % 2 = 1
        THEN Inst(id0 + j - 1, "gep", output_ptr,
                  VInt(DependentOffset((j - 1) \div 2)), VNull)
        ELSE Inst(id0 + j - 1, "store",
                  At(table, dependent_vec[j \div 2]), VInst(id0 + j - 2), VNull)]

\* the module after std::make_unique<llvm::Module>, the declaration of
\* acosh, Function::Create and the entry block
NewModule(ctx, name) ==
    [ctx |-> ctx, decls |-> {"acosh"},
     function |-> [name |-> name, layout |-> <<"EntryBlock">>, code |-> NoCode]]

\* (a variant without the entry at index zero)
InitialTableEmpty == << >>

\* graph_ir with nothing at index zero
InitialTable == << VNull >>

(***************************************************************************)
(* llvm::verifyFunction: TRUE when the function is broken.                 *)
(***************************************************************************)
Terminators == {"ret", "condbr"}

\* operands an instruction must have
NOperands(op) ==
    CASE op \in {"ret", "zext", "load", "fneg", "call_acosh", "condbr"} -> 1
      [] op = "select" -> 3
      [] OTHER -> 2

Operands(ins) == << ins.a, ins.b, ins.c >>

\* ids defined in block bb before position pos
DefinedBefore(f, bb, pos) ==
    {f.code[bb][q].id : q \in 1 .. pos - 1}
    \cup IF bb = "EntryBlock" THEN {}
         ELSE {f.code["EntryBlock"][q].id : q \in 1 .. Len(f.code["EntryBlock"])}

BlockBroken(f, bb) ==
    LET code == f.code[bb]
    IN  \/ code = <<>>
        \/ code[Len(code)].op \notin Terminators
        \/ \E q \in 1 .. Len(code) - 1 : code[q].op \in Terminators
        \/ \E q \in 1 .. Len(code) :
              \/ \E r \in 1 .. NOperands(code[q].op) :
                    LET o == Operands(code[q])[r]
                    IN  \/ o.t = "null"
                        \/ o.t = "inst" /\ o.i \notin DefinedBefore(f, bb, q)
              \/ code[q].op = "condbr" /\
                    \E t \in {code[q].t1, code[q].t2} :
                        \A r \in 1 .. Len(f.layout) : f.layout[r] # t

verifyFunction(f) ==
    \/ f.layout = <<>>
    \/ \E r \in 1 .. Len(f.layout) : BlockBroken(f, f.layout[r])

(***************************************************************************)
(* A call of the generated function                                        *)
(*   int32 f(int32 len_input, double* input_ptr,                           *)
(*           int32 len_output, double* output_ptr)                         *)
(* executed instruction by instruction.  c is the call: its two lengths,   *)
(* the doubles at input_ptr and the doubles at output_ptr before it.       *)
(***************************************************************************)
Ptr(buf, off) == [buf |-> buf, off |-> off]

\* the run-time value of an operand
Val(c, env, o) ==
    CASE o.t = "inst" -> env[o.i]
      [] o.t = "cfp"  -> o.v
      [] o.t = "cint" -> o.i
      [] o.t = "arg"  -> CASE o.i = 0 -> c.len_input
                           [] o.i = 1 -> Ptr("input", 0)
                           [] o.i = 2 -> c.len_output
                           [] o.i = 3 -> Ptr("output", 0)

\* the result of an instruction that has one
Result(c, env, ins) ==
    LET a == Val(c, env, ins.a)
        b == Val(c, env, ins.b)
    IN  CASE ins.op = "icmp_ne"    -> a # b
          [] ins.op = "or"         -> a \/ b
          [] ins.op = "zext"       -> IF a THEN 1 ELSE 0
          [] ins.op = "gep"        -> Ptr(a.buf, a.off + b)
          [] ins.op = "load"       -> IF a.off + 1 \in DOMAIN c.input
                                      THEN c.input[a.off + 1]
                                      ELSE NaN
          [] ins.op = "fadd"       -> FAdd(a, b)
          [] ins.op = "fsub"       -> FSub(a, b)
          [] ins.op = "fmul"       -> FMul(a, b)
          [] ins.op = "fdiv"       -> FDiv(a, b)
          [] ins.op = "fneg"       -> FNeg(a)
          [] ins.op = "call_acosh" -> Acosh(a)
          [] ins.op = "fcmp_oeq"   -> FCmpOEQ(a, b)
          [] ins.op = "select"     -> IF a THEN b ELSE Val(c, env, ins.c)

\* the output buffer after a store at offset off (a store past the end of
\* the caller's buffer is undefined; the model leaves the buffer as it is)
Stored(output, off, x) ==
    IF off + 1 \in DOMAIN output THEN [output EXCEPT ![off + 1] = x]
    ELSE output

\* run from position pos of block bb; r is what the call has done so far:
\* the output buffer, the offsets loaded and stored, in order; at the
\* return it gets the return code and the values of the instructions
RECURSIVE Exec(_, _, _, _, _, _)
Exec(f, c, bb, pos, env, r) ==
    LET ins == f.code[bb][pos]
    IN  CASE ins.op = "ret" ->
                [r EXCEPT !.code = Val(c, env, ins.a), !.env = env]
          [] ins.op = "condbr" ->
                Exec(f, c, IF Val(c, env, ins.a) THEN ins.t1 ELSE ins.t2,
                     1, env, r)
          [] ins.op = "store" ->
                LET ptr == Val(c, env, ins.b)
                IN  Exec(f, c, bb, pos + 1, env,
                         [r EXCEPT !.output = Stored(@, ptr.off,
                                                     Val(c, env, ins.a)),
                                   !.stores = Append(@, ptr.off)])
          [] ins.op = "load" ->
                Exec(f, c, bb, pos + 1, (ins.id :> Result(c, env, ins)) @@ env,
                     [r EXCEPT !.loads = Append(@, Val(c, env, ins.a).off)])
          [] OTHER ->
                Exec(f, c, bb, pos + 1, (ins.id :> Result(c, env, ins)) @@ env, r)

\* the whole call
CallFunction(f, c) ==
    Exec(f, c, "EntryBlock", 1, << >>,
         [code |-> 0, output |-> c.output, loads |-> <<>>, stores |-> <<>>,
          env |-> << >>])

(***************************************************************************)
(* State.                                                                  *)
(***************************************************************************)
VARIABLES
    \* the llvm_ir object: its members
    n_dynamic_ind_, n_variable_ind_, n_variable_dep_, function_name_,
    context_ir_, module_ir_,
    \* the call of from_graph: its argument, its position, its locals
    graph_obj, pc, msg, graph_ir, iop,
    \* the graph_ir indices read by the latest step, each with the size of
    \* graph_ir when it was read
    reads,
    \* the members when from_graph was entered
    ir_in,
    \* the latest call of the generated function and what it did
    call

lower_vars == << n_dynamic_ind_, n_variable_ind_, n_variable_dep_,
                 function_name_, context_ir_, module_ir_, graph_obj, pc, msg,
                 graph_ir, iop, reads, ir_in, call >>

\* the members of the llvm_ir object, as one record
Members ==
    [ n_dynamic_ind_  |-> n_dynamic_ind_,
      n_variable_ind_ |-> n_variable_ind_,
      n_variable_dep_ |-> n_variable_dep_,
      function_name_  |-> function_name_,
      context_ir_     |-> context_ir_,
      module_ir_      |-> module_ir_ ]

\* the entry block and error_bb of the length check, both blocks linked
WithLengthCheck(m, n_input, n_dep) ==
    [m EXCEPT !.function.layout = <<"EntryBlock", "error_bb", "merge_bb">>,
              !.function.code["EntryBlock"] = LengthCheckEntry(n_input, n_dep),
              !.function.code["error_bb"] = LengthCheckError]

\* the llvm_ir object from_graph is called on.  Its input value does not
\* matter to from_graph; the model takes an object on which from_graph
\* succeeded before, for the graph named g with one variable independent,
\* which is its one dependent, so that every member has a value to lose.
UsedObject ==
    LET m1  == WithLengthCheck(NewModule(1, "g"), 1, 1)
        tab == InitialTable \o IndependentValues(NInst(m1.function) + 1, 0, 1)
        m2  == Emit(m1, "merge_bb",
                    IndependentInsts(NInst(m1.function) + 1, 0, 1))
        m3  == Emit(m2, "merge_bb",
                    DependentInsts(NInst(m2.function) + 1, <<1>>, tab))
    IN  [ n_dynamic_ind_ |-> 0, n_variable_ind_ |-> 1, n_variable_dep_ |-> 1,
          function_name_ |-> "g", context_ir_ |-> 1, module_ir_ |-> m3 ]

NoGraph == Graph(0, 0, 0, "", <<0, 0, <<>>>>, <<>>, <<>>)
NoCall ==
    [ made |-> FALSE, len_input |-> 0, input |-> <<>>, len_output |-> 0,
      output |-> <<>>,
      result |-> [code |-> 0, output |-> <<>>, loads |-> <<>>, stores |-> <<>>],
      values |-> <<>> ]

\* an llvm_ir object on which from_graph was never called
NewObject ==
    [ n_dynamic_ind_ |-> 0, n_variable_ind_ |-> 0, n_variable_dep_ |-> 0,
      function_name_ |-> "", context_ir_ |-> 0, module_ir_ |-> NullModule ]

\* the object is o and from_graph has not been entered
Idle(o) ==
    /\ n_dynamic_ind_ = o.n_dynamic_ind_
    /\ n_variable_ind_ = o.n_variable_ind_
    /\ n_variable_dep_ = o.n_variable_dep_
    /\ function_name_ = o.function_name_
    /\ context_ir_ = o.context_ir_
    /\ module_ir_ = o.module_ir_
    /\ ir_in = o
    /\ graph_obj = NoGraph
    /\ pc = "idle"
    /\ msg = <<>>
    /\ graph_ir = <<>>
    /\ iop = 0
    /\ reads = {}
    /\ call = NoCall

InitLower == Idle(UsedObject)

(***************************************************************************)
(* llvm_ir::from_graph, step by step.  msg is the std::string it returns,  *)
(* kept as the sequence of the pieces appended to it.                      *)
(***************************************************************************)
members == << n_dynamic_ind_, n_variable_ind_, n_variable_dep_,
              function_name_, context_ir_, module_ir_ >>

\* the pieces of the message of an operator from_graph does not lower
UnsupportedMsg(op_enum) ==
    << "graph_obj has following unsupported operator ", op_enum >>

\* (a variant that tests the atomic table before the discrete table)
AssumptionMsgAtomicFirst(g) ==
    IF g.atomic_name_vec_size # 0
    THEN << "graph_obj.atomic_name_vec_size() != 0" >>
    ELSE IF g.discrete_name_vec_size # 0
    THEN << "graph_obj.discrete_name_vec_size() != 0" >>
    ELSE IF g.print_text_vec_size # 0
    THEN << "graph_obj.print_text_vec_size() != 0" >>
    ELSE <<>>

\* (a variant without the test of the print table)
AssumptionMsgNoPrint(g) ==
    IF g.discrete_name_vec_size # 0
    THEN << "graph_obj.discrete_name_vec_size() != 0" >>
    ELSE IF g.atomic_name_vec_size # 0
    THEN << "graph_obj.atomic_name_vec_size() != 0" >>
    ELSE <<>>

\* lines 99-111: what the first failing assumption appends to msg, nothing
\* when the three tables are empty
AssumptionMsg(g) ==
    IF g.discrete_name_vec_size # 0
    THEN << "graph_obj.discrete_name_vec_size() != 0" >>
    ELSE IF g.atomic_name_vec_size # 0
    THEN << "graph_obj.atomic_name_vec_size() != 0" >>
    ELSE IF g.print_text_vec_size # 0
    THEN << "graph_obj.print_text_vec_size() != 0" >>
    ELSE <<>>

\* (a variant that also looks for an operator it cannot lower, before any
\* module exists)
NameMsgWithOperators(g) ==
    IF g.function_name = ""
    THEN << "graph_obj.function_name_get() is empty" >>
    ELSE IF \E k \in 1 .. Len(g.operator_vec) :
                g.operator_vec[k].op_enum \notin SupportedOps
    THEN LET k == CHOOSE k \in 1 .. Len(g.operator_vec) :
                    /\ g.operator_vec[k].op_enum \notin SupportedOps
                    /\ \A j \in 1 .. k - 1 :
                          g.operator_vec[j].op_enum \in SupportedOps
         IN  UnsupportedMsg(g.operator_vec[k].op_enum)
    ELSE <<>>

\* lines 120-125: what the check of the function name appends to msg
NameMsg(g) ==
    IF g.function_name = ""
    THEN << "graph_obj.function_name_get() is empty" >>
    ELSE <<>>

\* lines 95-111: msg gets its prefix; the three tables that must be empty
CheckAssumptions ==
    /\ pc = "idle"
    /\ \E hd \in Headers : \E sh \in ShapesOf(hd) :
       \E ops \in OpVecsOf(hd, sh) : \E dep \in DepVecsOf(hd, sh, ops) :
       LET g == Graph(hd[1], hd[2], hd[3], hd[4], sh, ops, dep)
       IN
          /\ graph_obj' = g
          /\ msg' = << "llvm_ir::from_graph: " >> \o AssumptionMsg(g)
          /\ pc' = IF AssumptionMsg(g) # <<>> THEN "returned" ELSE "scalars"
    /\ ir_in' = Members
    /\ UNCHANGED << members, graph_ir, iop, reads, call >>

\* lines 113-125: the counts and the function name
ScalarValues ==
    /\ pc = "scalars"
    /\ n_dynamic_ind_' = graph_obj.n_dynamic_ind
    /\ n_variable_ind_' = graph_obj.n_variable_ind
    /\ n_variable_dep_' = Len(graph_obj.dependent_vec)
    /\ function_name_' = graph_obj.function_name
    /\ msg' = msg \o NameMsg(graph_obj)
    /\ pc' = IF NameMsg(graph_obj) # <<>> THEN "returned" ELSE "create"
    /\ UNCHANGED << context_ir_, module_ir_, graph_obj, graph_ir, iop, reads,
                    ir_in, call >>

\* lines 127-217: a new context, a new module, the function with its entry
\* block, and graph_ir with nothing at index zero
CreateFunction ==
    /\ pc = "create"
    /\ context_ir_' = context_ir_ + 1
    /\ module_ir_' = NewModule(context_ir_ + 1, function_name_)
    /\ graph_ir' = InitialTable
    /\ pc' = "length_check"
    /\ UNCHANGED << n_dynamic_ind_, n_variable_ind_, n_variable_dep_,
                    function_name_, graph_obj, msg, iop, reads, ir_in, call >>

\* lines 221-260: the check of len_input and len_output
LengthCheck ==
    /\ pc = "length_check"
    /\ module_ir_' = WithLengthCheck(module_ir_,
                        n_dynamic_ind_ + n_variable_ind_, n_variable_dep_)
    /\ pc' = "independents"
    /\ UNCHANGED << n_dynamic_ind_, n_variable_ind_, n_variable_dep_,
                    function_name_, context_ir_, graph_obj, msg, graph_ir,
                    iop, reads, ir_in, call >>

\* lines 262-288: the dynamic and the variable independents
Independents ==
    /\ pc = "independents"
    /\ LET id0 == NInst(module_ir_.function) + 1
       IN  /\ module_ir_' = Emit(module_ir_, "merge_bb",
                  IndependentInsts(id0, n_dynamic_ind_, n_variable_ind_))
           /\ graph_ir' = graph_ir \o
                  IndependentValues(id0, n_dynamic_ind_, n_variable_ind_)
    /\ pc' = "constants"
    /\ UNCHANGED << n_dynamic_ind_, n_variable_ind_, n_variable_dep_,
                    function_name_, context_ir_, graph_obj, msg, iop, reads,
                    ir_in, call >>

\* lines 290-303: the constants
Constants ==
    /\ pc = "constants"
    /\ graph_ir' = graph_ir \o ConstantValues(graph_obj.constant_vec)
    /\ iop' = 0
    /\ pc' = "operators"
    /\ UNCHANGED << members, graph_obj, msg, reads, ir_in, call >>

\* the graph_ir indices a step reads, with the size of graph_ir then
Reading(indices, table) ==
    {[index |-> indices[j], size |-> Len(table)] : j \in 1 .. Len(indices)}

\* lines 314-423: one operator of the graph
LowerOperator ==
    /\ pc = "operators"
    /\ iop < Len(graph_obj.operator_vec)
    /\ LET node == graph_obj.operator_vec[iop + 1]
           id0  == NInst(module_ir_.function) + 1
           code == NodeInsts(id0, node.op_enum, node.arg, graph_ir)
       IN  IF node.op_enum \in SupportedOps
           THEN /\ module_ir_' = Emit(module_ir_, "merge_bb", code)
                /\ graph_ir' = Append(graph_ir, VInst(code[Len(code)].id))
                /\ reads' = Reading(node.arg, graph_ir)
                /\ iop' = iop + 1
                /\ UNCHANGED << msg, pc >>
           ELSE /\ msg' = msg \o UnsupportedMsg(node.op_enum)
                /\ pc' = "returned"
                /\ UNCHANGED << module_ir_, graph_ir, reads, iop >>
    /\ UNCHANGED << n_dynamic_ind_, n_variable_ind_, n_variable_dep_,
                    function_name_, context_ir_, graph_obj, ir_in, call >>

\* lines 424-441: the stores of the dependents and the return of zero
Dependents ==
    /\ pc = "operators"
    /\ iop = Len(graph_obj.operator_vec)
    /\ module_ir_' = Emit(module_ir_, "merge_bb",
          DependentInsts(NInst(module_ir_.function) + 1,
                         graph_obj.dependent_vec, graph_ir))
    /\ reads' = Reading(graph_obj.dependent_vec, graph_ir)
    /\ pc' = "verify"
    /\ UNCHANGED << n_dynamic_ind_, n_variable_ind_, n_variable_dep_,
                    function_name_, context_ir_, graph_obj, msg, graph_ir,
                    iop, ir_in, call >>

\* lines 443-456: the verification of the function and the return
Verify ==
    /\ pc = "verify"
    /\ IF verifyFunction(module_ir_.function)
       THEN msg' = Append(msg, "error during verification of llvm_ir function")
       ELSE msg' = <<>>
    /\ pc' = "returned"
    /\ UNCHANGED << members, graph_obj, graph_ir, iop, reads, ir_in, call >>

(***************************************************************************)
(* A call of the generated function, once from_graph returned no error.    *)
(* The function is not changed by a call, so that a later call starts      *)
(* where this one does: a run of the model makes one.                      *)
(***************************************************************************)
\* what output_ptr holds before a call
Sentinel == FpInt(7)

\* the lengths a caller passes where n is expected
InLenChoices(n) == {n, n + 1} \cup ({n - 1} \ {-1})
OutLenChoices(n) == {n, n + 1}

\* the calls for a function of n_in independents and n_dep dependents.  A
\* call with a wrong length is made with one content of input_ptr.
Calls(n_in, n_dep) ==
    UNION { UNION { { [ made |-> TRUE, len_input |-> li, input |-> in,
                        len_output |-> lo,
                        output |-> [j \in 1 .. lo |-> Sentinel] ] :
                      in \in IF li = n_in /\ lo = n_dep
                             THEN [1 .. li -> InVals]
                             ELSE {[j \in 1 .. li |-> FpInt(j)]} } :
                    lo \in OutLenChoices(n_dep) } :
            li \in InLenChoices(n_in) }

\* the double each node of the graph had in a call that ran to the end of
\* merge_bb (graph_ir still names the llvm value of each node); none for a
\* call that left through error_bb
NodeValues(c, r, table) ==
    IF r.stores = <<>> /\ r.loads = <<>> /\ r.code # 0 THEN <<>>
    ELSE [j \in 1 .. Len(table) - 1 |-> Val(c, r.env, table[j + 1])]

Call ==
    /\ pc = "returned"
    /\ msg = <<>>
    /\ ~call.made
    /\ \E c \in Calls(n_dynamic_ind_ + n_variable_ind_, n_variable_dep_) :
          LET r == CallFunction(module_ir_.function, c)
          IN  call' = [ made |-> TRUE, len_input |-> c.len_input,
                        input |-> c.input, len_output |-> c.len_output,
                        output |-> c.output,
                        result |-> [code |-> r.code, output |-> r.output,
                                    loads |-> r.loads, stores |-> r.stores],
                        values |-> NodeValues(c, r, graph_ir) ]
    /\ UNCHANGED << members, graph_obj, pc, msg, graph_ir, iop, reads, ir_in >>

(***************************************************************************)
(* Properties of from_graph and of the function it generates.              *)
(***************************************************************************)
NIndependent == n_dynamic_ind_ + n_variable_ind_
NConstant == Len(graph_obj.constant_vec)
NOperator == Len(graph_obj.operator_vec)
\* index of the result of the k-th operator
OperatorIndex(k) == NIndependent + NConstant + k

LengthsMatch ==
    /\ call.len_input = NIndependent
    /\ call.len_output = n_variable_dep_

\* C1: a call whose len_input or len_output is not the expected one returns
\* 1, loads nothing from input_ptr, stores nothing to output_ptr, and leaves
\* every element of the output buffer as it was.
C1_LengthMismatchReturnsOne ==
    (call.made /\ ~LengthsMatch) =>
        /\ call.result.code = 1
        /\ call.result.loads = <<>>
        /\ call.result.stores = <<>>
        /\ call.result.output = call.output

C1_Witness ==
    /\ call.made
    /\ call.len_input = NIndependent
    /\ call.len_output = n_variable_dep_ + 1
    /\ n_variable_dep_ = 2
    /\ call.result.code = 1
    /\ call.result.output = << Sentinel, Sentinel, Sentinel >>

\* the value of a graph operator on the values of its arguments
GraphOp(op_enum, a, b) ==
    CASE op_enum = "neg"   -> FNeg(a)
      [] op_enum = "acosh" -> Acosh(a)
      [] op_enum = "add"   -> FAdd(a, b)
      [] op_enum = "sub"   -> FSub(a, b)
      [] op_enum = "mul"   -> FMul(a, b)
      [] op_enum = "div"   -> FDiv(a, b)
      [] op_enum = "azmul" -> IF IsZero(a) THEN PZero ELSE FMul(a, b)

\* the values of the nodes of graph g up to its k-th operator, evaluated
\* in sequence order at the independents x
RECURSIVE GraphValues(_, _, _)
GraphValues(g, x, k) ==
    IF k = 0 THEN x \o g.constant_vec
    ELSE LET t  == GraphValues(g, x, k - 1)
             nd == g.operator_vec[k]
         IN  Append(t, GraphOp(nd.op_enum, t[nd.arg[1]],
                               t[nd.arg[Len(nd.arg)]]))

\* C2: a call with the expected lengths returns 0 and leaves in
\* output_ptr[i] the value of node dependent_vec[i] of the graph evaluated
\* at input_ptr (dynamic independents first, then the variables).
C2_OutputsAreGraphValues ==
    (call.made /\ LengthsMatch) =>
        /\ call.result.code = 0
        /\ \A i \in 1 .. n_variable_dep_ :
              call.result.output[i] =
                 GraphValues(graph_obj, call.input, NOperator)
                    [graph_obj.dependent_vec[i]]

C2_Witness ==
    /\ call.made
    /\ LengthsMatch
    /\ n_dynamic_ind_ = 1
    /\ NOperator = 2
    /\ graph_obj.operator_vec[2].op_enum = "sub"
    /\ n_variable_dep_ = 2
    /\ call.result.output = << FpInt(-2), PZero >>

\* C3: in a call that ran the lowered code, an azmul node is +0.0 when its
\* left argument is a zero, whatever the right one (NaN, +-Inf), and the
\* product of its arguments when the left one is not a zero.
C3_AzmulZeroRule ==
    (call.made /\ call.values # <<>>) =>
        \A k \in 1 .. NOperator :
            graph_obj.operator_vec[k].op_enum = "azmul" =>
                LET a == call.values[graph_obj.operator_vec[k].arg[1]]
                    b == call.values[graph_obj.operator_vec[k].arg[2]]
                    y == call.values[OperatorIndex(k)]
                IN  IF IsZero(a) THEN y = PZero ELSE y = FMul(a, b)

C3_Witness ==
    /\ call.made
    /\ call.values # <<>>
    /\ \E k \in 1 .. NOperator :
          /\ graph_obj.operator_vec[k].op_enum = "azmul"
          /\ IsZero(call.values[graph_obj.operator_vec[k].arg[1]])
          /\ IsNaN(call.values[graph_obj.operator_vec[k].arg[2]])
          /\ call.values[OperatorIndex(k)] = PZero

\* the operators of g that from_graph does not lower
Unsupported(g) ==
    {k \in 1 .. Len(g.operator_vec) :
        g.operator_vec[k].op_enum \notin
            {"neg", "acosh", "add", "sub", "mul", "div", "azmul"}}

\* the message the documented order of the checks gives for graph g
DocumentedMsg(g) ==
    IF g.discrete_name_vec_size # 0
    THEN << "llvm_ir::from_graph: ", "graph_obj.discrete_name_vec_size() != 0" >>
    ELSE IF g.atomic_name_vec_size # 0
    THEN << "llvm_ir::from_graph: ", "graph_obj.atomic_name_vec_size() != 0" >>
    ELSE IF g.print_text_vec_size # 0
    THEN << "llvm_ir::from_graph: ", "graph_obj.print_text_vec_size() != 0" >>
    ELSE IF g.function_name = ""
    THEN << "llvm_ir::from_graph: ", "graph_obj.function_name_get() is empty" >>
    ELSE IF Unsupported(g) # {}
    THEN << "llvm_ir::from_graph: ",
            "graph_obj has following unsupported operator ",
            g.operator_vec[CHOOSE k \in Unsupported(g) :
                              \A j \in Unsupported(g) : k <= j].op_enum >>
    ELSE <<>>

Unfinished(f) == f # NoFunction /\ verifyFunction(f)

\* C5 as claimed: after a failed from_graph the module of the object holds
\* no partially built function.
C5_NoUnfinishedFunctionVisible ==
    (pc = "returned" /\ msg # <<>>) => ~Unfinished(module_ir_.function)

\* C5 as amended: a failure of one of the four checks on the tables and
\* the name leaves context_ir_ and module_ir_ as they were before the call;
\* a failure at an operator leaves in module_ir_ the new module with the
\* unfinished function of this call.
C5_FailureLeavesModule ==
    (pc = "returned" /\ msg # <<>>) =>
        IF Named(<< graph_obj.discrete_name_vec_size,
                    graph_obj.atomic_name_vec_size,
                    graph_obj.print_text_vec_size,
                    graph_obj.function_name >>)
        THEN /\ context_ir_ # ir_in.context_ir_
             /\ module_ir_.ctx = context_ir_
             /\ module_ir_.function.name = graph_obj.function_name
             /\ Unfinished(module_ir_.function)
        ELSE /\ context_ir_ = ir_in.context_ir_
             /\ module_ir_ = ir_in.module_ir_

C5_Witness ==
    /\ pc = "returned"
    /\ msg # <<>>
    /\ iop = 1
    /\ NOperator = 2
    /\ Unfinished(module_ir_.function)
    /\ module_ir_ # ir_in.module_ir_

\* the instruction of merge_bb with the given id
MergeInst(id) ==
    LET code == module_ir_.function.code["merge_bb"]
    IN  code[CHOOSE q \in 1 .. Len(code) : code[q].id = id]

\* the instruction that gives the value of a node
ValueInst(op_enum) ==
    CASE op_enum = "neg"   -> "fneg"
      [] op_enum = "acosh" -> "call_acosh"
      [] op_enum = "add"   -> "fadd"
      [] op_enum = "sub"   -> "fsub"
      [] op_enum = "mul"   -> "fmul"
      [] op_enum = "div"   -> "fdiv"
      [] op_enum = "azmul" -> "select"

\* slot j of graph_ir is the load of input_ptr[j - 1]
IsIndependent(j) ==
    /\ At(graph_ir, j).t = "inst"
    /\ MergeInst(At(graph_ir, j).i).op = "load"
    /\ MergeInst(MergeInst(At(graph_ir, j).i).a.i).op = "gep"
    /\ MergeInst(MergeInst(At(graph_ir, j).i).a.i).a = input_ptr
    /\ MergeInst(MergeInst(At(graph_ir, j).i).a.i).b = VInt(j - 1)

\* C9: graph_ir holds nothing at index 0, then the dynamic independents,
\* the variable independents, the constants, and one entry per operator
\* lowered so far, in sequence order: 1 + n_dyn + n_var + n_const + k
\* entries after k operators, the k-th operator at n_dyn + n_var + n_const + k.
C9_TableLayout ==
    /\ pc \in {"length_check", "independents"} => graph_ir = << VNull >>
    /\ pc = "constants" =>
          /\ Len(graph_ir) = 1 + NIndependent
          /\ \A j \in 1 .. NIndependent : IsIndependent(j)
    /\ pc \in {"operators", "verify"} =>
          /\ Len(graph_ir) = 1 + NIndependent + NConstant + iop
          /\ At(graph_ir, 0) = VNull
          /\ \A j \in 1 .. NIndependent : IsIndependent(j)
          /\ \A j \in 1 .. NConstant :
                At(graph_ir, NIndependent + j) = VFp(graph_obj.constant_vec[j])
          /\ \A k \in 1 .. iop :
                /\ At(graph_ir, OperatorIndex(k)).t = "inst"
                /\ MergeInst(At(graph_ir, OperatorIndex(k)).i).op =
                      ValueInst(graph_obj.operator_vec[k].op_enum)
                /\ k > 1 => At(graph_ir, OperatorIndex(k - 1)).i
                               < At(graph_ir, OperatorIndex(k)).i

C9_Witness ==
    /\ pc = "operators"
    /\ iop = 2
    /\ n_dynamic_ind_ = 1
    /\ NConstant = 1
    /\ Len(graph_ir) = 6
    /\ graph_obj.operator_vec[1].op_enum = "azmul"

\* the single-assignment invariant of a graph: every argument of a node is
\* an independent, a constant or an earlier operator, every dependent a node
WellFormed(g) ==
    LET base == g.n_dynamic_ind + g.n_variable_ind + Len(g.constant_vec)
    IN  /\ \A k \in 1 .. Len(g.operator_vec) :
              \A j \in 1 .. Len(g.operator_vec[k].arg) :
                  g.operator_vec[k].arg[j] \in 1 .. base + k - 1
        /\ \A i \in 1 .. Len(g.dependent_vec) :
              g.dependent_vec[i] \in 1 .. base + Len(g.operator_vec)

\* C10: for a graph that keeps the single-assignment invariant, every read
\* of graph_ir, for an argument of a node or for a dependent, is at an index
\* from 1 to the size of graph_ir less one.
C10_ReadsArePopulated ==
    WellFormed(graph_obj) =>
        \A r \in reads : 1 <= r.index /\ r.index <= r.size - 1

C10_Witness ==
    /\ pc = "verify"
    /\ iop = 2
    /\ \E r \in reads : r.index = r.size - 1
    /\ \E r \in reads : r.index = 1

\* one of the three tables of the graph is not empty
TableRejected(g) ==
    \/ g.discrete_name_vec_size # 0
    \/ g.atomic_name_vec_size # 0
    \/ g.print_text_vec_size # 0

\* the counts and the function name of the object are those of graph g
ScalarsOf(g) ==
    /\ n_dynamic_ind_ = g.n_dynamic_ind
    /\ n_variable_ind_ = g.n_variable_ind
    /\ n_variable_dep_ = Len(g.dependent_vec)
    /\ function_name_ = g.function_name

\* C11: a from_graph that returns because the discrete, atomic or print
\* table is not empty has changed no member of the object; one that returns
\* because the function name is empty has overwritten the counts and the
\* function name with those of the graph and left context_ir_ and module_ir_
\* as they were; and in no state of a call on a graph with a non-empty table
\* does a member differ from its value at entry.
C11_MembersOnRejection ==
    /\ (pc # "idle" /\ TableRejected(graph_obj)) =>
          (pc = "returned" /\ Members = ir_in)
    /\ (pc = "returned" /\ ~TableRejected(graph_obj)
           /\ graph_obj.function_name = "") =>
          /\ ScalarsOf(graph_obj)
          /\ context_ir_ = ir_in.context_ir_
          /\ module_ir_ = ir_in.module_ir_

C11_Witness ==
    /\ pc = "returned"
    /\ graph_obj.print_text_vec_size # 0
    /\ graph_obj.discrete_name_vec_size = 0
    /\ graph_obj.atomic_name_vec_size = 0
    /\ graph_obj.function_name = ""
    /\ ~ScalarsOf(graph_obj)
    /\ Members = UsedObject

(***************************************************************************)
(* FunCheck example: the function object Fun, the tape an ADFun records    *)
(* from it, and FunCheck of the tape against Fun.                          *)
(***************************************************************************)
\* number of components of x
n_independent == 2
\* the tolerances of the example, 1e-10 each, held as the number of decimal
\* places: 10 stands for 10^-10
relative_tol == 10
absolute_tol == 10

\* the smallest positive double and its negative
DenormMin(sg) == [k |-> "tiny", s |-> sg, n |-> 0, d |-> 1]

\* the components of an argument vector
XVals == { FpInt(-1), DenormMin(-1), PZero, DenormMin(1), FpInt(1), FpInt(710) }
Vectors == [1 .. n_independent -> XVals]

\* x >= 0 on doubles
FGe0(x) == ~IsNaN(x) /\ (IsZero(x) \/ x.s = 1)

\* exp of the C library, to five decimal places: 1 at the zeros and at
\* +-DenormMin (the nearest double), +Inf from 710 on (overflow), and
\* below the fifth decimal place from -710 down
Exp(x) ==
    IF IsNaN(x) THEN NaN
    ELSE IF IsInf(x) THEN (IF x.s = 1 THEN PInf ELSE PZero)
    ELSE IF IsZero(x) \/ x.k = "tiny" THEN FpInt(1)
    ELSE IF x = FpInt(1) THEN Fin(1, 271828, 100000)
    ELSE IF x = FpInt(-1) THEN Fin(1, 36788, 100000)
    ELSE IF x.s = 1 /\ x.n >= 710 * x.d THEN PInf
    ELSE PZero

\* (a variant of Fun without the branch)
FunOpsNoBranch(xi) == << "exp" >>

\* the operations Fun::operator() applies to component xi
FunOps(xi) == IF FGe0(xi) THEN << "exp" >> ELSE << "neg", "exp" >>

\* the value of a sequence of operations at xi
RECURSIVE Replay(_, _)
Replay(ops, xi) ==
    IF ops = <<>> THEN xi
    ELSE Replay(Tail(ops), IF Head(ops) = "neg" THEN FNeg(xi) ELSE Exp(xi))

\* y = g(x), computed by Fun itself
Fun(x) == [i \in 1 .. n_independent |-> Replay(FunOps(x[i]), x[i])]

\* ADFun<double> f: no operation is stored
DefaultADFun == [i \in 1 .. n_independent |-> << >>]

\* (a variant that keeps the operation sequence f had)
StoreSequenceKeepsOld(old, x) == old

\* Independent(X); Y = G(X); f(X, Y): stop the tape and store in f the
\* operations G applied at X
StoreSequence(old, x) == [i \in 1 .. n_independent |-> FunOps(x[i])]

\* f.Forward(0, x): the stored operation sequence replayed at x
Forward(tape, x) == [i \in 1 .. n_independent |-> Replay(tape[i], x[i])]

RECURSIVE Pow10(_)
Pow10(e) == IF e = 0 THEN 1 ELSE 10 * Pow10(e - 1)
RECURSIVE DivPow10(_, _)
DivPow10(v, e) == IF e = 0 THEN v ELSE DivPow10(v \div 10, e - 1)
Max(i, j) == IF i >= j THEN i ELSE j

\* a finite value in units of 1e-5
Units(v) == v.s * v.n * (100000 \div v.d)
AbsInt(i) == IF i < 0 THEN -i ELSE i

\* |candidate - reference| <= 10^-atol + 10^-rtol * |reference| in double
\* arithmetic: false when the difference is NaN, and, on values that are
\* multiples of 1e-5, the comparison of the whole numbers of units
Within(candidate, reference, rtol, atol) ==
    LET diff == FSub(candidate, reference)
        m    == Max(rtol, atol)
    IN  IF IsNaN(diff) THEN FALSE
        ELSE IF IsInf(reference) THEN TRUE
        ELSE IF IsInf(diff) THEN FALSE
        ELSE AbsInt(Units(candidate) - Units(reference))
                <= DivPow10(Pow10(5 + m - atol)
                            + AbsInt(Units(reference)) * Pow10(m - rtol), m)

\* FunCheck of the stored operation sequence against Fun at x
FunCheck(tape, x, rtol, atol) ==
    \A i \in 1 .. n_independent :
        Within(Forward(tape, x)[i], Fun(x)[i], rtol, atol)

VARIABLES
    X,          \* the argument at which the operation sequence was recorded
    adfun,      \* the operation sequence stored in the ADFun f
    last,       \* the FunCheck made since the last recording, if any: its
                \* argument, the operation sequence it replayed, its result
    retaped     \* the last recording was made where a FunCheck had failed

fc_vars == << X, adfun, last, retaped >>

NoCheck == [made |-> FALSE, x |-> << >>, tape |-> << >>, ok |-> TRUE]

\* X[0] = -1, X[1] = 1, and the first recording
InitFunCheck ==
    /\ X = << FpInt(-1), FpInt(1) >>
    /\ adfun = StoreSequence(DefaultADFun, << FpInt(-1), FpInt(1) >>)
    /\ last = NoCheck
    /\ retaped = FALSE

\* FunCheck(f, g, x, a, r) at some x
Check ==
    \E x \in Vectors :
        /\ last' = [made |-> TRUE, x |-> x, tape |-> adfun,
                    ok |-> FunCheck(adfun, x, relative_tol, absolute_tol)]
        /\ UNCHANGED << X, adfun, retaped >>

\* re-tape: X[j] = x[j]; Independent(X); Y = G(X); f(X, Y)
Retape ==
    \E x \in Vectors :
        /\ X' = x
        /\ adfun' = StoreSequence(adfun, x)
        /\ retaped' = (last.made /\ ~last.ok /\ last.x = x)
        /\ last' = NoCheck

\* -1, 0 or 1
Sign(x) == IF IsZero(x) \/ IsNaN(x) THEN 0 ELSE x.s
OppositeSign(x, y) == Sign(x) * Sign(y) = -1

\* C6 as claimed: a FunCheck at the argument of the most recent recording
\* returns true.
C6_CheckAtRecordingPoint ==
    (last.made /\ last.x = X) => last.ok

\* C6 as amended: a FunCheck at the argument of the most recent recording
\* returns true when every component of the function value there is finite,
\* also when the recording was made after a FunCheck failed there.
C6_CheckAtFiniteRecordingPoint ==
    (last.made /\ last.x = X /\ \A i \in 1 .. n_independent : IsFin(Fun(X)[i]))
        => last.ok

C6_Witness ==
    /\ retaped
    /\ last.made
    /\ last.x = X
    /\ X = << FpInt(1), FpInt(-1) >>
    /\ last.ok

\* after a FunCheck the ADFun stores the operation sequence it replayed
CheckKeepsSequence == last.made => adfun = last.tape

\* C7 as claimed: a FunCheck at an argument with a nonzero component of
\* the sign opposite to the recorded one returns false, and FunCheck does
\* not change the stored operation sequence.
C7_OppositeSignFails ==
    /\ last.made =>
          ((\E i \in 1 .. n_independent : OppositeSign(last.x[i], X[i]))
              => ~last.ok)
    /\ CheckKeepsSequence

\* 1 <= |x| <= 709: exp(|x|) is finite and exceeds exp(-|x|) by more than
\* the tolerances allow
Separates(x) == IsFin(x) /\ x.n >= x.d /\ x.n <= 709 * x.d

\* C7 as amended: a FunCheck at an argument with a component of the sign
\* opposite to the recorded one and of magnitude from 1 to 709 returns
\* false, and FunCheck does not change the stored operation sequence.
C7_SeparatedOppositeSignFails ==
    /\ last.made =>
          ((\E i \in 1 .. n_independent :
               OppositeSign(last.x[i], X[i]) /\ Separates(last.x[i]))
              => ~last.ok)
    /\ CheckKeepsSequence

C7_Witness ==
    /\ last.made
    /\ X = << FpInt(-1), FpInt(1) >>
    /\ last.x = << FpInt(1), FpInt(-1) >>
    /\ ~last.ok
    /\ adfun = << << "neg", "exp" >>, << "exp" >> >>

(***************************************************************************)
(* The atomic index table: one atomic_index_info per registered atomic     *)
(* function, found by the index that its registration returned.            *)
(***************************************************************************)
\* largest number of registrations
MaxRegs == 3

\* (a variant that does not keep the name)
atomic_index_info_unnamed(type, name, ptr) ==
    [type |-> type, name |-> "", ptr |-> ptr]

\* struct atomic_index_info
atomic_index_info(type, name, ptr) ==
    [type |-> type, name |-> name, ptr |-> ptr]

\* the arguments of a registration
Types == {2, 3}
Names == {"a", "b"}
Ptrs == {"p"}

NotFound == [type |-> 0, name |-> "", ptr |-> "null"]

VARIABLES
    registry,   \* the entries of the table, by id
    next_id,    \* the number of ids handed out
    issued,     \* every registration so far, in order: its id and arguments
    found       \* the last lookup: its id, whether the id had an entry, and
                \* what it returned

reg_vars == << registry, next_id, issued, found >>

NoLookup == [made |-> FALSE, id |-> 0, present |-> FALSE, entry |-> NotFound]

InitRegistry ==
    /\ registry = << >>
    /\ next_id = 0
    /\ issued = << >>
    /\ found = NoLookup

\* register(kind, name) -> id
Register ==
    /\ Len(issued) < MaxRegs
    /\ \E type \in Types, name \in Names, ptr \in Ptrs :
          /\ next_id' = next_id + 1
          /\ registry' = registry @@
                (next_id + 1 :> atomic_index_info(type, name, ptr))
          /\ issued' = Append(issued,
                [id |-> next_id + 1, type |-> type, name |-> name, ptr |-> ptr])
    /\ UNCHANGED found

\* unregister(id)
Unregister ==
    /\ \E id \in DOMAIN registry :
          registry' = [j \in DOMAIN registry \ {id} |-> registry[j]]
    /\ UNCHANGED << next_id, issued, found >>

\* lookup(id) -> Entry or NotFound
Lookup ==
    /\ \E id \in 0 .. MaxRegs + 1 :
          found' = [made |-> TRUE, id |-> id,
                    present |-> id \in DOMAIN registry,
                    entry |-> IF id \in DOMAIN registry
                              THEN registry[id] ELSE NotFound]
    /\ UNCHANGED << registry, next_id, issued >>

\* the arguments of the registration that returned id
Registered(id) ==
    LET k == CHOOSE j \in 1 .. Len(issued) : issued[j].id = id
    IN  [type |-> issued[k].type, name |-> issued[k].name, ptr |-> issued[k].ptr]

\* C8: every registration returns an id greater than every id returned
\* before it, also after entries were unregistered; the entry under an id
\* is the one registered under it for as long as it exists, and that is
\* what lookup returns.
C8_IdsIncreaseEntriesStay ==
    /\ \A i, j \in 1 .. Len(issued) : i < j => issued[i].id < issued[j].id
    /\ \A id \in DOMAIN registry :
          /\ \E j \in 1 .. Len(issued) : issued[j].id = id
          /\ registry[id] = Registered(id)
    /\ found.made =>
          IF found.present THEN found.entry = Registered(found.id)
          ELSE found.entry = NotFound

C8_Witness ==
    /\ Len(issued) = 3
    /\ DOMAIN registry = {1, 3}
    /\ issued[3].id = 3
    /\ issued[3].name # issued[2].name
    /\ found.made
    /\ found.id = 1
    /\ found.entry = Registered(1)

(***************************************************************************)
(* The specifications: from_graph and a call of the generated function;    *)
(* the recordings and checks of the FunCheck example; the atomic index     *)
(* table.  Each leaves the state of the others as it is.                   *)
(***************************************************************************)
vars == << lower_vars, fc_vars, reg_vars >>

Init == InitLower /\ InitFunCheck /\ InitRegistry

\* no llvm_ir object is in use
InitNoLowering == Idle(NewObject) /\ InitFunCheck /\ InitRegistry

NextLower ==
    \/ CheckAssumptions /\ UNCHANGED << fc_vars, reg_vars >>
    \/ ScalarValues /\ UNCHANGED << fc_vars, reg_vars >>
    \/ CreateFunction /\ UNCHANGED << fc_vars, reg_vars >>
    \/ LengthCheck /\ UNCHANGED << fc_vars, reg_vars >>
    \/ Independents /\ UNCHANGED << fc_vars, reg_vars >>
    \/ Constants /\ UNCHANGED << fc_vars, reg_vars >>
    \/ LowerOperator /\ UNCHANGED << fc_vars, reg_vars >>
    \/ Dependents /\ UNCHANGED << fc_vars, reg_vars >>
    \/ Verify /\ UNCHANGED << fc_vars, reg_vars >>
    \/ Call /\ UNCHANGED << fc_vars, reg_vars >>

NextFunCheck ==
    \/ Check /\ UNCHANGED << lower_vars, reg_vars >>
    \/ Retape /\ UNCHANGED << lower_vars, reg_vars >>

NextRegistry ==
    \/ Register /\ UNCHANGED << lower_vars, fc_vars >>
    \/ Unregister /\ UNCHANGED << lower_vars, fc_vars >>
    \/ Lookup /\ UNCHANGED << lower_vars, fc_vars >>

Spec == Init /\ [][NextLower]_vars

SpecFunCheck == InitNoLowering /\ [][NextFunCheck]_vars

SpecRegistry == InitNoLowering /\ [][NextRegistry]_vars

=============================================================================
